---- MODULE Spec2Model ----
(***************************************************************************)
(* Model of csv_validator (src/main.py): the schema-driven validation of a *)
(* table of raw string cells, the aggregate reconciliation of the          *)
(* 'quantity' column of two sources, and the report.                       *)
(*                                                                         *)
(* Python values are represented as follows.                               *)
(*   str        a sequence of one-character strings: "150" is              *)
(*              <<"1","5","0">>, "" is <<>>                                *)
(*   None / x   an optional value is <<>> (None) or <<x>> (set)            *)
(*   bool       the validators' results are the strings "True" / "False";  *)
(*              a call that does not return is the name of what ended it   *)
(*              ("TypeError", "ValueError", "IndexError", "SystemExit")     *)
(*   float      the decimal m / 10^e, or inf / nan                         *)
(***************************************************************************)
EXTENDS Integers, Sequences, FiniteSets, TLC

VARIABLES schema, rows, csv_frame, parquet_data,
          pc, i, j, errors, call, report, stdout

vars == <<schema, rows, csv_frame, parquet_data,
          pc, i, j, errors, call, report, stdout>>

\* Largest number of rows of a table of the walk.
MaxRows == 2

---------------------------------------------------------------------------
(* Python values *)

None == <<>>
Some(x) == <<x>>
IsNone(o) == Len(o) = 0
Get(o) == o[1]

PyTrue == "True"
PyFalse == "False"

DigitChars == <<"0", "1", "2", "3", "4", "5", "6", "7", "8", "9">>
IsDigit(c) == \E k \in DOMAIN DigitChars : DigitChars[k] = c
DigitVal(c) == (CHOOSE k \in DOMAIN DigitChars : DigitChars[k] = c) - 1
AllDigits(s) == \A k \in DOMAIN s : IsDigit(s[k])

RECURSIVE DigitsVal(_)
DigitsVal(s) ==
    IF Len(s) = 0 THEN 0
    ELSE DigitsVal(SubSeq(s, 1, Len(s) - 1)) * 10 + DigitVal(s[Len(s)])

RECURSIVE Pow10(_)
Pow10(n) == IF n = 0 THEN 1 ELSE 10 * Pow10(n - 1)

\* str.strip(): leading and trailing blanks removed
RECURSIVE strip(_)
strip(s) ==
    IF Len(s) > 0 /\ s[1] = " " THEN strip(Tail(s))
    ELSE IF Len(s) > 0 /\ s[Len(s)] = " " THEN strip(SubSeq(s, 1, Len(s) - 1))
    ELSE s

HasSign(s) == Len(s) > 0 /\ s[1] \in {"+", "-"}
Unsigned(s) == IF HasSign(s) THEN Tail(s) ELSE s
IsNegative(s) == Len(s) > 0 /\ s[1] = "-"

\* int(value): blanks stripped, an optional sign, then decimal digits.
\* ok = FALSE is ValueError.
py_int(value) ==
    LET t == strip(value)
        u == Unsigned(t)
    IN  IF Len(u) > 0 /\ AllDigits(u)
        THEN [ok |-> TRUE,
              v |-> IF IsNegative(t) THEN 0 - DigitsVal(u) ELSE DigitsVal(u)]
        ELSE [ok |-> FALSE, v |-> 0]

FirstIndex(s, c) == CHOOSE k \in DOMAIN s :
                        s[k] = c /\ \A n \in 1..(k - 1) : s[n] # c
Contains(s, c) == \E k \in DOMAIN s : s[k] = c

\* float(value): blanks stripped, an optional sign, then inf, nan, or digits
\* with at most one point and at least one digit. ok = FALSE is ValueError.
\* A finite value is m / 10^e.
py_float(value) ==
    LET t == strip(value)
        u == Unsigned(t)
        neg == IsNegative(t)
        bad == [ok |-> FALSE, kind |-> "fin", neg |-> FALSE, m |-> 0, e |-> 0]
    IN  IF u = <<"i", "n", "f">>
        THEN [ok |-> TRUE, kind |-> "inf", neg |-> neg, m |-> 0, e |-> 0]
        ELSE IF u = <<"n", "a", "n">>
        THEN [ok |-> TRUE, kind |-> "nan", neg |-> neg, m |-> 0, e |-> 0]
        ELSE IF Contains(u, ".")
        THEN LET k == FirstIndex(u, ".")
                 ip == SubSeq(u, 1, k - 1)
                 fp == SubSeq(u, k + 1, Len(u))
                 mag == DigitsVal(ip) * Pow10(Len(fp)) + DigitsVal(fp)
             IN  IF AllDigits(ip) /\ AllDigits(fp) /\ Len(ip) + Len(fp) > 0
                 THEN [ok |-> TRUE, kind |-> "fin", neg |-> neg,
                       m |-> IF neg THEN 0 - mag ELSE mag, e |-> Len(fp)]
                 ELSE bad
        ELSE IF Len(u) > 0 /\ AllDigits(u)
        THEN [ok |-> TRUE, kind |-> "fin", neg |-> neg,
              m |-> IF neg THEN 0 - DigitsVal(u) ELSE DigitsVal(u), e |-> 0]
        ELSE bad

\* A JSON number of the schema, as a float.
Num(m, e) == [ok |-> TRUE, kind |-> "fin", neg |-> m < 0, m |-> m, e |-> e]

\* a < b on floats: every comparison with nan is false.
float_lt(a, b) ==
    IF a.kind = "nan" \/ b.kind = "nan" THEN FALSE
    ELSE IF a.kind = "inf" THEN a.neg /\ ~(b.kind = "inf" /\ b.neg)
    ELSE IF b.kind = "inf" THEN ~b.neg
    ELSE a.m * Pow10(b.e) < b.m * Pow10(a.e)

\* len(str(value).split(".")[1]) for a finite float printed in positional
\* notation: the fraction without its trailing zeros, "0" when nothing is left.
RECURSIVE FractionDigits(_, _)
FractionDigits(m, e) ==
    IF e = 0 THEN 1
    ELSE IF m % 10 = 0 THEN FractionDigits(m \div 10, e - 1)
    ELSE e

\* value.split(",")
RECURSIVE split(_)
split(s) ==
    IF Contains(s, ",")
    THEN LET k == FirstIndex(s, ",")
         IN  <<SubSeq(s, 1, k - 1)>> \o split(SubSeq(s, k + 1, Len(s)))
    ELSE <<s>>

\* x in list
InList(x, list) == \E k \in DOMAIN list : list[k] = x

IsPrefix(p, s) == Len(p) <= Len(s) /\ SubSeq(s, 1, Len(p)) = p

\* re.match(regex, value) for a pattern of literal characters with an optional
\* leading ^ and an optional trailing $: the match is anchored at the start of
\* the value whether or not ^ is written, and reaches its end only under $.
re_match(regex, value) ==
    LET p == IF Len(regex) > 0 /\ regex[1] = "^" THEN Tail(regex) ELSE regex
    IN  IF Len(p) > 0 /\ p[Len(p)] = "$"
        THEN SubSeq(p, 1, Len(p) - 1) = value
        ELSE IsPrefix(p, value)

FormatYear == <<"%", "Y">>

\* datetime.strptime(text, format) for the format "%Y" (four digits, year 1 or
\* later): the year, or the exception raised. A format of None is a TypeError.
strptime(text, format) ==
    IF IsNone(format) THEN [exc |-> "TypeError", year |-> 0]
    ELSE IF Get(format) = FormatYear /\ Len(text) = 4
            /\ AllDigits(text) /\ DigitsVal(text) >= 1
    THEN [exc |-> "", year |-> DigitsVal(text)]
    ELSE [exc |-> "ValueError", year |-> 0]

---------------------------------------------------------------------------
(* Value validators *)

NoOptions == [required |-> FALSE, min_length |-> None, max_length |-> None,
              min_value |-> None, max_value |-> None, allowed_values |-> None,
              regex |-> None, format |-> None, precision |-> None]

\* The guard that opens every validator.
required_and_empty(value, options) ==
    options.required = TRUE /\ value = <<>>

validate_string(value, options) ==
    IF required_and_empty(value, options) THEN PyFalse
    ELSE IF ~IsNone(options.min_length) /\ Len(value) < Get(options.min_length)
    THEN PyFalse
    ELSE IF ~IsNone(options.max_length) /\ Len(value) > Get(options.max_length)
    THEN PyFalse
    ELSE IF ~IsNone(options.allowed_values)
            /\ ~InList(value, Get(options.allowed_values))
    THEN PyFalse
    ELSE IF ~IsNone(options.regex) /\ ~re_match(Get(options.regex), value)
    THEN PyFalse
    ELSE PyTrue

validate_integer_exclusive(value, options) ==
    IF required_and_empty(value, options) THEN PyFalse
    ELSE IF ~py_int(value).ok THEN PyFalse
    ELSE IF ~IsNone(options.min_value) /\ py_int(value).v <= Get(options.min_value)
    THEN PyFalse
    ELSE IF ~IsNone(options.max_value) /\ py_int(value).v >= Get(options.max_value)
    THEN PyFalse
    ELSE PyTrue

validate_integer(value, options) ==
    IF required_and_empty(value, options) THEN PyFalse
    ELSE IF ~py_int(value).ok THEN PyFalse
    ELSE IF ~IsNone(options.min_value) /\ py_int(value).v < Get(options.min_value)
    THEN PyFalse
    ELSE IF ~IsNone(options.max_value) /\ py_int(value).v > Get(options.max_value)
    THEN PyFalse
    ELSE PyTrue

validate_float(value, options) ==
    LET f == py_float(value)
    IN  IF required_and_empty(value, options) THEN PyFalse
        ELSE IF ~f.ok THEN PyFalse
        ELSE IF ~IsNone(options.min_value) /\ float_lt(f, Get(options.min_value))
        THEN PyFalse
        ELSE IF ~IsNone(options.max_value) /\ float_lt(Get(options.max_value), f)
        THEN PyFalse
        ELSE IF IsNone(options.precision) THEN PyTrue
        ELSE IF f.kind # "fin" THEN "IndexError"
        ELSE IF FractionDigits(f.m, f.e) > Get(options.precision) THEN PyFalse
        ELSE PyTrue

\* [x == "True" for x in options["allowed_values"]]
parsed_booleans(allowed) == [k \in DOMAIN allowed |-> allowed[k] = <<"T", "r", "u", "e">>]

\* value in allowed_values, for a str value and a list of bool: a str is never
\* equal to a bool.
str_in_bools(value, bools) == \E k \in DOMAIN bools : FALSE

validate_boolean(value, options) ==
    IF IsNone(options.allowed_values) THEN "TypeError"
    ELSE LET allowed_values == parsed_booleans(Get(options.allowed_values))
         IN  IF required_and_empty(value, options) THEN PyFalse
             ELSE IF Len(allowed_values) > 0 /\ ~str_in_bools(value, allowed_values)
             THEN PyFalse
             ELSE PyTrue

validate_datetime(value, options) ==
    LET min_value == IF IsNone(options.min_value) THEN [exc |-> "", year |-> 0]
                     ELSE strptime(Get(options.min_value), options.format)
        max_value == IF IsNone(options.max_value) THEN [exc |-> "", year |-> 0]
                     ELSE strptime(Get(options.max_value), options.format)
        parsed == strptime(value, options.format)
    IN  IF required_and_empty(value, options) THEN PyFalse
        ELSE IF min_value.exc # "" THEN min_value.exc
        ELSE IF max_value.exc # "" THEN max_value.exc
        ELSE IF parsed.exc = "ValueError" THEN PyFalse
        ELSE IF parsed.exc # "" THEN parsed.exc
        ELSE IF ~IsNone(options.min_value) /\ parsed.year < min_value.year
        THEN PyFalse
        ELSE IF ~IsNone(options.max_value) /\ parsed.year > max_value.year
        THEN PyFalse
        ELSE PyTrue

NonEmptyOnly(list) == SelectSeq(list, LAMBDA x : x # <<>>)

validate_array_filtered(value, options) ==
    LET array_values == NonEmptyOnly(split(value))
    IN  IF required_and_empty(value, options) THEN PyFalse
        ELSE IF ~IsNone(options.min_length)
                /\ Len(array_values) < Get(options.min_length)
        THEN PyFalse
        ELSE IF ~IsNone(options.max_length)
                /\ Len(array_values) > Get(options.max_length)
        THEN PyFalse
        ELSE IF ~IsNone(options.allowed_values)
                /\ \E k \in DOMAIN array_values :
                       ~InList(array_values[k], Get(options.allowed_values))
        THEN PyFalse
        ELSE PyTrue

validate_array(value, options) ==
    LET array_values == split(value)
    IN  IF required_and_empty(value, options) THEN PyFalse
        ELSE IF ~IsNone(options.min_length)
                /\ Len(array_values) < Get(options.min_length)
        THEN PyFalse
        ELSE IF ~IsNone(options.max_length)
                /\ Len(array_values) > Get(options.max_length)
        THEN PyFalse
        ELSE IF ~IsNone(options.allowed_values)
                /\ \E k \in DOMAIN array_values :
                       ~InList(array_values[k], Get(options.allowed_values))
        THEN PyFalse
        ELSE PyTrue

validate_object(value, options) ==
    IF required_and_empty(value, options) THEN PyFalse ELSE PyTrue

KnownTypes == {"string", "integer", "float", "boolean", "datetime", "array", "object"}

validate_data_type_lenient(data_type, value, options) ==
    CASE data_type = "string" -> validate_string(value, options)
      [] data_type = "integer" -> validate_integer(value, options)
      [] data_type = "float" -> validate_float(value, options)
      [] data_type = "boolean" -> validate_boolean(value, options)
      [] data_type = "datetime" -> validate_datetime(value, options)
      [] data_type = "array" -> validate_array(value, options)
      [] data_type = "object" -> validate_object(value, options)
      [] OTHER -> PyTrue

\* The type dispatcher. "SystemExit" is print("Error: Unknown data type ...")
\* followed by sys.exit(1).
validate_data_type(data_type, value, options) ==
    CASE data_type = "string" -> validate_string(value, options)
      [] data_type = "integer" -> validate_integer(value, options)
      [] data_type = "float" -> validate_float(value, options)
      [] data_type = "boolean" -> validate_boolean(value, options)
      [] data_type = "datetime" -> validate_datetime(value, options)
      [] data_type = "array" -> validate_array(value, options)
      [] data_type = "object" -> validate_object(value, options)
      [] OTHER -> "SystemExit"

---------------------------------------------------------------------------
(* Row rule evaluator *)

\* errors.insert(0, entry)
list_insert_front(list, entry) == <<entry>> \o list

\* errors.append(entry)
list_append(list, entry) == Append(list, entry)

\* The ErrorEntry dictionaries. The row is an int for a cell (here <<index>>)
\* and the empty str for a whole-source entry (here <<>>).
required_entry(column, index) ==
    [row |-> <<index>>, column |-> column.name,
     error |-> <<"Error: Required column ", column.name, " is empty">>]

invalid_entry(column, value, index) ==
    [row |-> <<index>>, column |-> column.name,
     error |-> <<"Error: Invalid value ", value, " for column ", column.name>>]

check_required_any_value(column, row, index, errs) ==
    IF column.options.required = TRUE
    THEN list_append(errs, required_entry(column, index))
    ELSE errs

check_required(column, row, index, errs) ==
    IF column.options.required = TRUE /\ row[column.name] = <<>>
    THEN list_append(errs, required_entry(column, index))
    ELSE errs

check_data_type_on_empty(column, row, index, errs) ==
    LET value == row[column.name]
        result == validate_data_type(column.type, value, column.options)
    IN  [errors |-> IF result = PyFalse
                    THEN list_append(errs, invalid_entry(column, value, index))
                    ELSE errs,
         result |-> result]

\* The error list after the call and how the dispatcher's call ended
\* ("skipped" when the cell is empty and the dispatcher is not called).
check_data_type(column, row, index, errs) ==
    LET value == row[column.name]
        result == validate_data_type(column.type, value, column.options)
    IN  IF value = <<>> THEN [errors |-> errs, result |-> "skipped"]
        ELSE [errors |-> IF result = PyFalse
                         THEN list_append(errs, invalid_entry(column, value, index))
                         ELSE errs,
              result |-> result]

---------------------------------------------------------------------------
(* Aggregate reconciliation *)

\* A row of a data frame as the reconciliation reads it: its date
\* <<year, month, day>> and its quantity, None for a missing value (NaN).
FrameRow(date, quantity) == [date |-> date, quantity |-> quantity]

DateLeq(a, b) ==
    \/ a[1] < b[1]
    \/ a[1] = b[1] /\ a[2] < b[2]
    \/ a[1] = b[1] /\ a[2] = b[2] /\ a[3] <= b[3]

\* df.query("date >= '2017-01-01' AND date <= '2017-12-31'")
date_range(df) ==
    SelectSeq(df, LAMBDA r : DateLeq(<<2017, 1, 1>>, r.date)
                             /\ DateLeq(r.date, <<2017, 12, 31>>))

\* df["quantity"].sum(): missing values are skipped
RECURSIVE column_sum(_)
column_sum(df) ==
    IF Len(df) = 0 THEN 0
    ELSE (IF IsNone(df[1].quantity) THEN 0 ELSE Get(df[1].quantity))
         + column_sum(Tail(df))

\* df["quantity"].count(): the number of values that are not missing
column_count(df) == Len(SelectSeq(df, LAMBDA r : ~IsNone(r.quantity)))

validate_sum_always(df1, df2) == TRUE

validate_sum(df1, df2) ==
    column_sum(date_range(df1)) = column_sum(date_range(df2))

validate_count(df1, df2) ==
    column_count(date_range(df1)) = column_count(date_range(df2))

sum_entry ==
    [row |-> <<>>, column |-> "quantity",
     error |-> <<"Error: Sum of quantity is not the same in both dataframes">>]

count_entry ==
    [row |-> <<>>, column |-> "quantity",
     error |-> <<"Error: Count of quantity is not the same in both dataframes">>]

---------------------------------------------------------------------------
(* Report *)

report_line(error) ==
    <<"Row: ", error.row, "\t Column: ", error.column, "\t\t", error.error, "\n">>

report_lines_cells_only(errs) ==
    LET kept == SelectSeq(errs, LAMBDA e : e.row # <<>>)
    IN  [k \in DOMAIN kept |-> report_line(kept[k])]

\* The lines written to the report file, one per entry of the list.
report_lines(errs) == [k \in DOMAIN errs |-> report_line(errs[k])]

---------------------------------------------------------------------------
(* Inputs: schemas, tables and data frames *)

Column(name, type, options) == [name |-> name, type |-> type, options |-> options]

\* The column of the scenario: qty, integer, required, between 0 and 100.
qty == Column("qty", "integer",
              [NoOptions EXCEPT !.required = TRUE, !.min_value = Some(0),
                                !.max_value = Some(100)])
code == Column("code", "string",
               [NoOptions EXCEPT !.max_length = Some(2), !.regex = Some(<<"^", "A">>)])
tags == Column("tags", "array",
               [NoOptions EXCEPT !.required = TRUE, !.max_length = Some(2),
                                 !.allowed_values = Some(<<(<<"a">>)>>)])
flag == Column("flag", "boolean", NoOptions)
uuid == Column("uuid", "uuid", [NoOptions EXCEPT !.required = TRUE])
note == Column("note", "object", [NoOptions EXCEPT !.required = TRUE])

\* The schemas of the walk, each an ordered list of column specs.
Schemas == << <<qty>>, <<qty, code>>, <<tags, qty>>, <<code, note>>,
              <<qty, uuid>>, <<uuid, code>>, <<flag, qty>>, <<note, flag>>,
              <<qty, note, uuid>> >>

\* The raw values a cell of each column takes in the tables of the walk.
Cells(name) ==
    CASE name = "qty" -> {<<>>, <<"1", "5", "0">>, <<"1", "0", "0">>}
      [] name = "code" -> {<<>>, <<"A", "B">>, <<"A", "B", "C">>}
      [] name = "tags" -> {<<>>, <<"a">>, <<"a", ",">>}
      [] name = "flag" -> {<<>>, <<"T", "r", "u", "e">>}
      [] name = "uuid" -> {<<>>, <<"x">>}
      [] name = "note" -> {<<>>, <<"x">>}

AllCells == UNION {Cells(n) : n \in {"qty", "code", "tags", "flag", "uuid", "note"}}

Names(sch) == {sch[k].name : k \in DOMAIN sch}

\* The rows of a table over a schema: every schema column is a key of the row.
RowsOf(sch) == {r \in [Names(sch) -> AllCells] : \A n \in Names(sch) : r[n] \in Cells(n)}

Tables(sch) == UNION {[1..n -> RowsOf(sch)] : n \in 0..MaxRows}

In2017 == <<2017, 6, 1>>
In2016 == <<2016, 6, 1>>

CsvFrames ==
    { <<FrameRow(In2017, Some(1)), FrameRow(In2017, Some(1))>>,
      <<FrameRow(In2017, Some(2)), FrameRow(In2016, Some(5))>> }

ParquetFrames ==
    { <<FrameRow(In2017, Some(1)), FrameRow(In2017, Some(1))>>,
      <<FrameRow(In2017, Some(2))>>,
      <<FrameRow(In2017, Some(1)), FrameRow(In2017, None)>> }

\* The last call of the type dispatcher: its arguments, how it ended, and the
\* number of calls made so far.
NoCall == [type |-> "", value |-> <<>>, options |-> NoOptions, result |-> "none",
           seq |-> 0]

---------------------------------------------------------------------------
(* main() *)

\* main() after the configuration, the schema and both data files are read.
Start ==
    /\ csv_frame \in CsvFrames
    /\ parquet_data \in ParquetFrames
    /\ pc = "walk"
    /\ i = 1
    /\ j = 1
    /\ errors = <<>>
    /\ call = NoCall
    /\ report = None
    /\ stdout = <<>>

\* A table of one row over a schema of one column.
OneCell(column, value) ==
    /\ schema = <<column>>
    /\ rows = <<[n \in {column.name} |-> value]>>

IntegerValues ==
    {<<>>, <<"1", "5", "0">>, <<"1", "0", "0">>, <<"1", "0", "1">>, <<"9", "9">>,
     <<"0">>, <<"-", "1">>, <<"+", "5">>, <<" ", "7">>, <<"0", "0", "7">>,
     <<"a", "b", "c">>, <<"1", ".", "5">>, <<"-">>}

FloatValues ==
    {<<>>, <<"1", ".", "5">>, <<"1", ".", "5", "0">>, <<"1", ".", "2", "5">>,
     <<"0", ".", "5">>, <<"0", ".", "4">>, <<"1", ".", "6">>, <<"2">>, <<".", "5">>,
     <<"i", "n", "f">>, <<"-", "i", "n", "f">>, <<"n", "a", "n">>, <<"x">>, <<".">>}

StringValues == {<<>>, <<"A">>, <<"A", "B">>, <<"A", "B", "C">>, <<"B">>}

ArrayValues ==
    {<<>>, <<"a">>, <<"a", ",">>, <<"a", ",", "b">>, <<"a", ",", "b", ",", "c">>,
     <<",">>, <<"b">>}

DatetimeValues ==
    {<<>>, <<"2", "0", "1", "7">>, <<"2", "0", "1", "6">>, <<"2", "0", "1", "8">>,
     <<"a", "b", "c">>, <<"0", "0", "0", "0">>}

BooleanValues == {<<>>, <<"T", "r", "u", "e">>, <<"F", "a", "l", "s", "e">>}

\* Every declared type with its constraints set or None, on one cell.
CellInputs ==
    \/ \E r \in BOOLEAN, mn \in {None, Some(0)}, mx \in {None, Some(100)},
          v \in IntegerValues :
          OneCell(Column("qty", "integer",
                         [NoOptions EXCEPT !.required = r, !.min_value = mn,
                                           !.max_value = mx]), v)
    \/ \E r \in BOOLEAN, mn \in {None, Some(Num(5, 1))}, mx \in {None, Some(Num(15, 1))},
          p \in {None, Some(1)}, v \in FloatValues :
          OneCell(Column("price", "float",
                         [NoOptions EXCEPT !.required = r, !.min_value = mn,
                                           !.max_value = mx, !.precision = p]), v)
    \/ \E r \in BOOLEAN, mn \in {None, Some(2)}, mx \in {None, Some(2)},
          a \in {None, Some(<<(<<"A", "B">>)>>)},
          x \in {None, Some(<<"^", "A">>), Some(<<"^", "A", "$">>)},
          v \in StringValues :
          OneCell(Column("code", "string",
                         [NoOptions EXCEPT !.required = r, !.min_length = mn,
                                           !.max_length = mx, !.allowed_values = a,
                                           !.regex = x]), v)
    \/ \E r \in BOOLEAN, mn \in {None, Some(2)}, mx \in {None, Some(2)},
          a \in {None, Some(<<(<<"a">>)>>), Some(<<(<<"a">>), <<"b">> >>),
                 Some(<<(<<"a">>), <<>> >>)},
          v \in ArrayValues :
          OneCell(Column("tags", "array",
                         [NoOptions EXCEPT !.required = r, !.min_length = mn,
                                           !.max_length = mx, !.allowed_values = a]), v)
    \/ \E r \in BOOLEAN, f \in {None, Some(FormatYear)},
          mn \in {None, Some(<<"2", "0", "1", "7">>), Some(<<"x">>)},
          mx \in {None, Some(<<"2", "0", "1", "7">>)},
          v \in DatetimeValues :
          OneCell(Column("when", "datetime",
                         [NoOptions EXCEPT !.required = r, !.format = f,
                                           !.min_value = mn, !.max_value = mx]), v)
    \/ \E r \in BOOLEAN,
          a \in {None, Some(<<>>), Some(<<(<<"T", "r", "u", "e">>)>>)},
          v \in BooleanValues :
          OneCell(Column("flag", "boolean",
                         [NoOptions EXCEPT !.required = r, !.allowed_values = a]), v)
    \/ \E r \in BOOLEAN, t \in {"object", "uuid", "Integer"}, v \in {<<>>, <<"x">>} :
          OneCell(Column("note", t, [NoOptions EXCEPT !.required = r]), v)

\* The tables of the walk: up to MaxRows rows over each schema of Schemas.
TableInputs ==
    \E k \in DOMAIN Schemas : schema = Schemas[k] /\ rows \in Tables(Schemas[k])

Init ==
    /\ TableInputs \/ CellInputs
    /\ Start

Returned(result) == result \in {PyTrue, PyFalse, "skipped"}

\* One pass of the body of the double loop: both checks on cell (i, j).
WalkCell ==
    /\ pc = "walk"
    /\ i <= Len(rows)
    /\ LET column == schema[j]
           row == rows[i]
           index == i - 1
           checked == check_data_type(column, row, index,
                                      check_required(column, row, index, errors))
       IN  /\ errors' = checked.errors
           /\ call' = IF checked.result = "skipped" THEN call
                      ELSE [type |-> column.type, value |-> row[column.name],
                            options |-> column.options, result |-> checked.result,
                            seq |-> call.seq + 1]
           /\ pc' = IF Returned(checked.result) THEN "walk"
                    ELSE IF checked.result = "SystemExit" THEN "exit1"
                    ELSE "raised"
           /\ stdout' = IF checked.result = "SystemExit"
                        THEN Append(stdout, <<"Error: Unknown data type: ", column.type>>)
                        ELSE stdout
           /\ i' = IF Returned(checked.result) /\ j = Len(schema) THEN i + 1 ELSE i
           /\ j' = IF ~Returned(checked.result) THEN j
                   ELSE IF j = Len(schema) THEN 1 ELSE j + 1
    /\ UNCHANGED <<schema, rows, csv_frame, parquet_data, report>>

\* The row iterator is exhausted.
WalkDone ==
    /\ pc = "walk"
    /\ i > Len(rows)
    /\ pc' = "sum"
    /\ UNCHANGED <<schema, rows, csv_frame, parquet_data, i, j, errors, call,
                   report, stdout>>

\* validate_sum and the append that follows it. The query and the column
\* lookups are library calls that raise on a frame they cannot filter or that
\* lacks the column; nothing in main() catches that.
SumCheck ==
    /\ pc = "sum"
    /\ \/ /\ pc' = "count"
          /\ stdout' = stdout \o
                 << <<"Sum of quantity in df1: ", column_sum(date_range(csv_frame))>>,
                    <<"Sum of quantity in df2: ", column_sum(date_range(parquet_data))>> >>
          /\ errors' = IF ~validate_sum(csv_frame, parquet_data)
                       THEN list_append(errors, sum_entry) ELSE errors
       \/ /\ pc' = "raised"
          /\ UNCHANGED <<stdout, errors>>
    /\ UNCHANGED <<schema, rows, csv_frame, parquet_data, i, j, call, report>>

\* validate_count and the append that follows it.
CountCheck ==
    /\ pc = "count"
    /\ pc' = "report"
    /\ stdout' = stdout \o
           << <<"Count of quantity in df1: ", column_count(date_range(csv_frame))>>,
              <<"Count of quantity in df2: ", column_count(date_range(parquet_data))>> >>
    /\ errors' = IF ~validate_count(csv_frame, parquet_data)
                 THEN list_append(errors, count_entry) ELSE errors
    /\ UNCHANGED <<schema, rows, csv_frame, parquet_data, i, j, call, report>>

\* The report file is written whole.
ReportWritten ==
    /\ pc = "report"
    /\ Len(errors) > 0
    /\ report' = Some(report_lines(errors))
    /\ stdout' = Append(stdout, <<"Report generated in ">>)
    /\ pc' = "done"
    /\ UNCHANGED <<schema, rows, csv_frame, parquet_data, i, j, errors, call>>

\* Opening the file or one of the writes fails: the file is missing or holds
\* the lines written so far, and the process exits with status 1.
ReportFailed ==
    /\ pc = "report"
    /\ Len(errors) > 0
    /\ \/ report' = None
       \/ \E n \in 0..(Len(errors) - 1) :
              report' = Some(SubSeq(report_lines(errors), 1, n))
    /\ stdout' = Append(stdout, <<"Error: Unable to generate report file: ">>)
    /\ pc' = "exit1"
    /\ UNCHANGED <<schema, rows, csv_frame, parquet_data, i, j, errors, call>>

NoErrors ==
    /\ pc = "report"
    /\ Len(errors) = 0
    /\ stdout' = Append(stdout, <<"No errors found">>)
    /\ pc' = "done"
    /\ UNCHANGED <<schema, rows, csv_frame, parquet_data, i, j, errors, call, report>>

Next ==
    \/ WalkCell
    \/ WalkDone
    \/ SumCheck
    \/ CountCheck
    \/ ReportWritten
    \/ ReportFailed
    \/ NoErrors

Spec == Init /\ [][Next]_vars

---------------------------------------------------------------------------
(* Properties *)

\* The walk stands at cell (i, j), which the next pass of the loop evaluates.
AtCell == pc = "walk" /\ i <= Len(rows)
CurColumn == schema[j]
CurValue == rows[i][schema[j].name]

RequiredViolation(index, name) ==
    [row |-> <<index>>, column |-> name,
     error |-> <<"Error: Required column ", name, " is empty">>]

TypeViolation(index, name, value) ==
    [row |-> <<index>>, column |-> name,
     error |-> <<"Error: Invalid value ", value, " for column ", name>>]

IsRequiredViolation(e) == e.error[1] = "Error: Required column "
IsTypeViolation(e) == e.error[1] = "Error: Invalid value "
IsAggregate(e) == e.row = <<>>
LastOf(list) == list[Len(list)]

\* C1: evaluating an empty cell of a required column appends exactly the
\* required-violation of that row and column and nothing else, whatever the
\* declared type, and the type dispatcher is not called for it.
C1_RequiredEmptyCell ==
    [][(AtCell /\ CurColumn.options.required = TRUE /\ CurValue = <<>>)
         => /\ errors' = Append(errors, RequiredViolation(i - 1, CurColumn.name))
            /\ call'.seq = call.seq
            /\ pc' = "walk"]_vars

\* An empty cell of a required column of a type other than integer has been
\* evaluated in the second row, with no dispatcher call so far.
C1_Witness ==
    /\ Len(errors) > 0
    /\ IsRequiredViolation(LastOf(errors))
    /\ LastOf(errors).row = <<1>>
    /\ LastOf(errors).column = "tags"
    /\ call.seq = 0

\* C2: evaluating a non-empty cell never appends a required-violation; it
\* appends exactly one type-violation when the dispatcher returns false and
\* only then, and appends nothing when the dispatcher returns true.
C2_NonEmptyCell ==
    [][(AtCell /\ CurValue # <<>>)
         => LET result == validate_data_type(CurColumn.type, CurValue,
                                             CurColumn.options)
                added == Append(errors,
                                TypeViolation(i - 1, CurColumn.name, CurValue))
            IN  /\ errors' = errors \/ errors' = added
                /\ (errors' = added) <=> (result = PyFalse)
                /\ (result = PyTrue) => (errors' = errors)
                /\ call'.seq = call.seq + 1
                /\ call'.result = result]_vars

\* A non-empty invalid cell of a required column has been evaluated: the one
\* entry it left is the type-violation.
C2_Witness ==
    /\ call.result = PyFalse
    /\ call.options.required = TRUE
    /\ Len(errors) = 1
    /\ IsTypeViolation(errors[1])
    /\ pc = "walk"

ColumnPosition(name) == CHOOSE k \in DOMAIN schema : schema[k].name = name

\* (row, schema position) of e1 is not after that of e2.
CellOrder(e1, e2) ==
    \/ e1.row[1] < e2.row[1]
    \/ e1.row[1] = e2.row[1]
       /\ ColumnPosition(e1.column) <= ColumnPosition(e2.column)

RowMajor(list) ==
    \A a, b \in DOMAIN list :
        (a < b /\ ~IsAggregate(list[a]) /\ ~IsAggregate(list[b]))
            => CellOrder(list[a], list[b])

\* C3: every step leaves the entries already in the list where they are and
\* adds only at its end, and the per-cell entries of the list are in row-major
\* order, then in the schema's column order.
C3_OrderedAppendOnly ==
    [][IsPrefix(errors, errors') /\ RowMajor(errors')]_vars

\* Entries of two rows and two columns are in the list.
C3_Witness ==
    /\ Len(errors) >= 3
    /\ \E a, b \in DOMAIN errors :
           /\ ~IsAggregate(errors[a]) /\ ~IsAggregate(errors[b])
           /\ errors[a].row # errors[b].row
    /\ \E a, b \in DOMAIN errors :
           /\ ~IsAggregate(errors[a]) /\ ~IsAggregate(errors[b])
           /\ errors[a].row = errors[b].row
           /\ errors[a].column # errors[b].column

UnknownColumns == {k \in DOMAIN schema : schema[k].type \notin KnownTypes}

\* Cell (r, k) comes before the position (i, j) of the walk.
Passed(r, k) == r < i \/ (r = i /\ k < j)

AllRecognized == UnknownColumns = {}

ParsesWith(text, format) == strptime(text, format).exc = ""

\* The configuration allowed to fail: a datetime column without a format (or
\* with a bound its format does not parse).
DatetimeMisconfigured(options) ==
    \/ IsNone(options.format)
    \/ ~IsNone(options.min_value) /\ ~ParsesWith(Get(options.min_value), options.format)
    \/ ~IsNone(options.max_value) /\ ~ParsesWith(Get(options.max_value), options.format)

WellConfigured ==
    \A k \in DOMAIN schema :
        schema[k].type = "datetime" => ~DatetimeMisconfigured(schema[k].options)

CellPairs == (DOMAIN rows) \X (DOMAIN schema)

RequiredViolated(r, k) ==
    schema[k].options.required = TRUE /\ rows[r][schema[k].name] = <<>>

TypeViolated(r, k) ==
    /\ rows[r][schema[k].name] # <<>>
    /\ validate_data_type(schema[k].type, rows[r][schema[k].name],
                          schema[k].options) = PyFalse

CellEntries == SelectSeq(errors, LAMBDA e : ~IsAggregate(e))

\* Once the walk is over, the per-cell entries of the list are exactly the
\* violated (row, column, rule), one entry each.
CellEntriesExact ==
    (i > Len(rows))
        => /\ \A c \in CellPairs :
                  /\ RequiredViolated(c[1], c[2])
                         <=> InList(RequiredViolation(c[1] - 1, schema[c[2]].name),
                                    CellEntries)
                  /\ TypeViolated(c[1], c[2])
                         <=> InList(TypeViolation(c[1] - 1, schema[c[2]].name,
                                                  rows[c[1]][schema[c[2]].name]),
                                    CellEntries)
           /\ Len(CellEntries)
                  = Cardinality({c \in CellPairs : RequiredViolated(c[1], c[2])})
                    + Cardinality({c \in CellPairs : TypeViolated(c[1], c[2])})

\* C5: over a schema of recognized types (every datetime column with its
\* format) the walk is never cut short, and once it is over the list holds
\* exactly one entry for each violated (row, column, rule) and no other
\* per-cell entry.
C5_EveryCellChecked ==
    (AllRecognized /\ WellConfigured)
        => /\ ~(pc \in {"raised", "exit1"} /\ i <= Len(rows))
           /\ CellEntriesExact

\* C6: a call of the dispatcher for one of the seven types ends with true or
\* false, whichever constraints are None, unless it is a datetime column
\* without a format.
C6_ValidatorsReturn ==
    (call.seq > 0 /\ call.type \in KnownTypes
        /\ ~(call.type = "datetime" /\ DatetimeMisconfigured(call.options)))
        => call.result \in {PyTrue, PyFalse}

\* C7: the integer validator accepts exactly the values that parse as a
\* base-10 integer within the inclusive bounds that are set; and the cell
\* '150' of the column qty (required, 0 to 100) leaves exactly one entry, which
\* names qty and 150.
C7_IntegerInclusive ==
    /\ (call.seq > 0 /\ call.type = "integer")
           => /\ call.result \in {PyTrue, PyFalse}
              /\ (call.result = PyTrue)
                     <=> /\ py_int(call.value).ok
                         /\ \/ IsNone(call.options.min_value)
                            \/ py_int(call.value).v >= Get(call.options.min_value)
                         /\ \/ IsNone(call.options.max_value)
                            \/ py_int(call.value).v <= Get(call.options.max_value)
    /\ (/\ pc = "sum"
        /\ Len(schema) = 1 /\ Len(rows) = 1
        /\ schema[1].name = "qty" /\ schema[1].type = "integer"
        /\ schema[1].options.required = TRUE
        /\ schema[1].options.min_value = Some(0)
        /\ schema[1].options.max_value = Some(100)
        /\ rows[1]["qty"] = <<"1", "5", "0">>)
           => errors = <<[row |-> <<0>>, column |-> "qty",
                          error |-> <<"Error: Invalid value ", <<"1", "5", "0">>,
                                      " for column ", "qty">>]>>

\* The integer validator has accepted a value equal to max_value.
C7_Witness ==
    /\ call.type = "integer"
    /\ call.result = PyTrue
    /\ ~IsNone(call.options.max_value)
    /\ py_int(call.value).v = Get(call.options.max_value)

\* C8: a run that ends without a fatal error has written no report and said
\* 'No errors found' if the final list is empty, and otherwise has written one
\* line per entry of the list, in the order of the list.
C8_ReportFollowsList ==
    pc = "done"
        => IF Len(errors) = 0
           THEN /\ report = None
                /\ LastOf(stdout) = <<"No errors found">>
           ELSE /\ ~IsNone(report)
                /\ Len(Get(report)) = Len(errors)
                /\ \A k \in DOMAIN errors :
                       Get(report)[k] = <<"Row: ", errors[k].row, "\t Column: ",
                                          errors[k].column, "\t\t", errors[k].error,
                                          "\n">>
                /\ \A k \in DOMAIN stdout : stdout[k] # <<"No errors found">>

\* A report of per-cell and aggregate entries has been written.
C8_Witness ==
    /\ pc = "done"
    /\ Len(errors) >= 3
    /\ ~IsAggregate(errors[1])
    /\ IsAggregate(LastOf(errors))

Commas(value) == Cardinality({k \in DOMAIN value : value[k] = ","})

\* C9: the array validator splits on every comma, keeps empty sub-values, and
\* accepts exactly when the count is within the lengths that are set and every
\* sub-value is allowed; 'a,b,c' with max_length 2 and 'a,' with allowed
\* values ['a'] are invalid.
C9_ArraySplit ==
    (call.seq > 0 /\ call.type = "array")
        => LET parts == split(call.value)
               o == call.options
           IN  /\ Len(parts) = Commas(call.value) + 1
               /\ \A k \in DOMAIN parts : ~Contains(parts[k], ",")
               /\ call.result \in {PyTrue, PyFalse}
               /\ (call.result = PyTrue)
                      <=> /\ IsNone(o.min_length) \/ Len(parts) >= Get(o.min_length)
                          /\ IsNone(o.max_length) \/ Len(parts) <= Get(o.max_length)
                          /\ \/ IsNone(o.allowed_values)
                             \/ \A k \in DOMAIN parts :
                                    InList(parts[k], Get(o.allowed_values))
               /\ (call.value = <<"a", ",", "b", ",", "c">> /\ o.max_length = Some(2))
                      => call.result = PyFalse
               /\ (call.value = <<"a", ",">> /\ o.allowed_values = Some(<<(<<"a">>)>>))
                      => call.result = PyFalse

\* 'a,' has been rejected for its empty sub-value alone.
C9_Witness ==
    /\ call.type = "array"
    /\ call.value = <<"a", ",">>
    /\ call.options.allowed_values = Some(<<(<<"a">>)>>)
    /\ IsNone(call.options.min_length)
    /\ IsNone(call.options.max_length)
    /\ call.result = PyFalse

SumsDiffer ==
    column_sum(date_range(csv_frame)) # column_sum(date_range(parquet_data))
CountsDiffer ==
    column_count(date_range(csv_frame)) # column_count(date_range(parquet_data))

AggregateEntries(list) == SelectSeq(list, LAMBDA e : IsAggregate(e))

====
